---- MODULE Spec2Model ----
(***************************************************************************)
(* Model of internal/helpers/deployment.go of vault-secrets-operator:      *)
(* the two polling watchers (AwaitInMemoryVaultTokensRevoked,              *)
(* AwaitPreDeleteStarted) and the annotation publisher                     *)
(* (annotateOperatorPods), running against a shared pod store, a probe     *)
(* file and cancellable contexts; and of the client cache keys of          *)
(* internal/vault (computeClientCacheKey, ClientCacheKey.IsClone,          *)
(* ClientCacheKeyClone) as cache_key_test.go exercises them.               *)
(*                                                                         *)
(* Strings of the program that are only compared are kept as strings;      *)
(* error messages, which the publisher joins and formats, are sequences    *)
(* of tokens so that strings.Join and fmt.Errorf act on them.              *)
(***************************************************************************)
EXTENDS Integers, Sequences, FiniteSets, TLC

\* ------------------------------------------------------------------ bounds
NumPods == 3
MaxEnvWrites == 1
\* successful ClientCacheKeyClone calls in a row a caller attempts
MaxClones == 2

\* --------------------------------------------------------------- constants
AnnotationPreDeleteHookStarted == "vso.secrets.hashicorp.com/pre-delete-hook-started"
AnnotationInMemoryVaultTokensRevoked == "vso.secrets.hashicorp.com/in-memory-vault-tokens-revoked"
StringTrue == "true"
\* LabelSelectorControlPlane = "control-plane=controller-manager": key, operator, value
LabelSelectorControlPlane == <<"control-plane", "=", "controller-manager">>
\* the path AwaitPreDeleteStarted reads
ProbePath == "/var/run/podinfo/pre-delete-hook-started"

\* an annotation the program does not know, owned by somebody else
OtherAnnotation == "example.com/owner"
\* the annotations other clients of the store write
EnvAnnotationKeys == {AnnotationInMemoryVaultTokensRevoked, OtherAnnotation}
AnnotationValues == {"true", "false"}
\* pods 1..NumPods are the operator's replicas, pod 0 belongs to another
\* component
OtherPod == 0
PodNames == 0..NumPods

\* ------------------------------------------------------- annotation maps
\* A Go map[string]string: nil, or a finite map.  Reading a nil map yields
\* "absent"; writing to it panics.
NilMap == [isNil |-> TRUE, kv |-> <<>>]
EmptyMap == [isNil |-> FALSE, kv |-> <<>>]
MapOf(k, v) == [isNil |-> FALSE, kv |-> [x \in {k} |-> v]]

\* value, ok := m[k]
HasKey(m, k) == k \in DOMAIN m.kv
Lookup(m, k) == m.kv[k]

\* m[k] = v on a non-nil map
MapSet(m, k, v) ==
    [isNil |-> FALSE,
     kv |-> [x \in (DOMAIN m.kv) \cup {k} |-> IF x = k THEN v ELSE m.kv[x]]]

MapDelete(m, k) ==
    [isNil |-> m.isNil, kv |-> [x \in (DOMAIN m.kv) \ {k} |-> m.kv[x]]]

\* ------------------------------------------------------------------ state
VARIABLES
    pods,          \* the store: pod name -> [cp, ann, rv], for the pods that exist
    envWrites,     \* writes other clients of the store have made so far
    file,          \* contents of the probe file, or FileAbsent
    rw_pc,         \* AwaitInMemoryVaultTokensRevoked: where it is
    rw_ctx,        \* its ctx: CtxLive, or cancelled (and whether a c.List was in flight then)
    rw_err,        \* err of its last c.List
    rw_list,       \* list.Items of its last c.List
    pw_pc,         \* AwaitPreDeleteStarted: where it is
    pw_ctx,        \* its ctx: CtxLive, or cancelled (and whether the iteration's read was still to come)
    pw_err,        \* err of its last os.ReadFile
    pw_b,          \* b of its last os.ReadFile
    handlerCalls,  \* times handler() was invoked
    pub_pc,        \* annotateOperatorPods: where it is
    pub_annotations, \* its annotations argument
    pub_items,     \* list.Items
    pub_i,         \* index of the range loop over list.Items
    pub_errs,      \* errs
    pub_ret,       \* the returned error
    patchLog,      \* the c.Patch calls issued so far, with their body and outcome
    peer_pc,       \* annotateOperatorPods run by another replica: where it is
    peer_annotations, \* its annotations argument
    peer_items,    \* its list.Items
    peer_i,        \* index of its range loop
    peer_errs,     \* its errs
    peer_ret,      \* the error it returned
    ck_call,       \* the last call into the cache-key functions, with its arguments
    ck_key,        \* the key that call returned ("" on an error)
    ck_err,        \* the error that call returned, or ErrNil
    ck_isClone,    \* what the last IsClone call returned
    ck_clones      \* successful ClientCacheKeyClone calls ck_key is the result of

storeVars == <<pods, envWrites>>
rwVars == <<rw_pc, rw_ctx, rw_err, rw_list>>
pwVars == <<pw_pc, pw_ctx, pw_err, pw_b, handlerCalls>>
pubVars == <<pub_pc, pub_annotations, pub_items, pub_i, pub_errs, pub_ret, patchLog>>
peerVars == <<peer_pc, peer_annotations, peer_items, peer_i, peer_errs, peer_ret>>
keyVars == <<ck_call, ck_key, ck_err, ck_isClone, ck_clones>>
vars == <<pods, envWrites, file, rw_pc, rw_ctx, rw_err, rw_list,
          pw_pc, pw_ctx, pw_err, pw_b, handlerCalls,
          pub_pc, pub_annotations, pub_items, pub_i, pub_errs, pub_ret, patchLog,
          peer_pc, peer_annotations, peer_items, peer_i, peer_errs, peer_ret,
          ck_call, ck_key, ck_err, ck_isClone, ck_clones>>

\* ------------------------------------------------------------- contexts
CtxLive == "live"
\* cancelled after the select of an iteration chose default and before the
\* iteration's call returned / cancelled at any other point
CtxDoneInCall == "done-in-call"
CtxDoneOutsideCall == "done-outside-call"
\* cancelled after the watcher had returned
CtxDoneAfterReturn == "done-after-return"
Returned(pc) == pc \in {"satisfied", "cancelled", "parse_failed"}
WhenCancelled(pc) ==
    IF Returned(pc) THEN CtxDoneAfterReturn
    ELSE IF pc \in {"list", "read"} THEN CtxDoneInCall
    ELSE CtxDoneOutsideCall
\* <-ctx.Done() is ready
CtxDone(ctx) == ctx # CtxLive

\* faulty variant, to test that the properties notice it: a select that does
\* not look at ctx.Done()
SelectTakesDefaultAlways(ctx) == TRUE

\* select { case <-ctx.Done(): ... default: ... }: the default branch runs
\* only when no other case is ready.
SelectTakesDefault(ctx) == ~CtxDone(ctx)

\* ------------------------------------------------------------ the store
\* labels.Parse(LabelSelectorControlPlane): a requirement key op value
ParseSelector(sel) == Len(sel) = 3 /\ sel[2] \in {"=", "==", "!="}

\* does the pod's label set satisfy the selector
SelectorMatches(sel, pod) ==
    IF sel[2] = "!=" THEN pod.cp # sel[3] ELSE pod.cp = sel[3]

\* the pod as c.List returns it
Item(n) == [name |-> n, cp |-> pods[n].cp, ann |-> pods[n].ann, rv |-> pods[n].rv]

RECURSIVE ItemsFrom(_, _)
ItemsFrom(n, sel) ==
    IF n \notin PodNames THEN <<>>
    ELSE (IF n \in DOMAIN pods /\ SelectorMatches(sel, pods[n])
          THEN <<Item(n)>> ELSE <<>>) \o ItemsFrom(n + 1, sel)

\* faulty variant, to test that the properties notice it: a list that ignores the selector
ListPodsNoSelector(sel) == ItemsFrom(0, <<sel[1], "!=", "">>)

\* c.List(ctx, &list, MatchingLabelsSelector{selector}) when it succeeds
ListPods(sel) == ItemsFrom(0, sel)

\* ------------------------------------------------------------------ Init
\* the pods the store can hold at the start: operator pods without
\* annotations, with somebody else's annotation, or already carrying the
\* revocation signal, and pods of another component
InitAnnotations ==
    {NilMap, MapOf(OtherAnnotation, "true"),
     MapOf(AnnotationInMemoryVaultTokensRevoked, "true")}

InitPod(n) ==
    IF n = OtherPod
    THEN {[cp |-> "webhook", ann |-> MapOf(AnnotationInMemoryVaultTokensRevoked, "true"), rv |-> 1]}
    ELSE {[cp |-> "controller-manager", ann |-> a, rv |-> 1] : a \in InitAnnotations}

InitStores ==
    {s \in [PodNames -> UNION {InitPod(n) : n \in PodNames}] :
        \A n \in PodNames : s[n] \in InitPod(n)}

FileAbsent == "<absent>"
FileContents == {"true", "false", "true\n"}

Init ==
    /\ pods \in InitStores
    /\ envWrites = 0
    /\ file = FileAbsent
    /\ rw_pc = "start" /\ rw_ctx = CtxLive /\ rw_err = FALSE /\ rw_list = <<>>
    /\ pw_pc = "select" /\ pw_ctx = CtxLive /\ pw_err = FALSE /\ pw_b = ""
    /\ handlerCalls = 0
    /\ pub_pc = "idle" /\ pub_annotations = EmptyMap /\ pub_items = <<>>
    /\ pub_i = 0 /\ pub_errs = <<>> /\ pub_ret = [kind |-> "none", msg |-> <<>>]
    /\ patchLog = <<>>
    /\ peer_pc = "idle" /\ peer_annotations = EmptyMap /\ peer_items = <<>>
    /\ peer_i = 0 /\ peer_errs = <<>> /\ peer_ret = [kind |-> "none", msg |-> <<>>]
    /\ ck_call = [fn |-> "none"] /\ ck_key = <<>> /\ ck_err = "nil"
    /\ ck_isClone = FALSE /\ ck_clones = 0

\* ------------------------------------------ AwaitInMemoryVaultTokensRevoked
\* faulty variant, to test that the properties notice it: the scan accepts the key with any value
PodRevokedAnyValue(pod) == HasKey(pod.ann, AnnotationInMemoryVaultTokensRevoked)

\* faulty variant, to test that the properties notice it: the scan looks up
\* the other signal's key
PodRevokedOtherKey(pod) ==
    /\ HasKey(pod.ann, AnnotationPreDeleteHookStarted)
    /\ Lookup(pod.ann, AnnotationPreDeleteHookStarted) = StringTrue

\* for _, pod := range list.Items { if value, ok := ...; ok && value == StringTrue }
PodRevoked(pod) ==
    /\ HasKey(pod.ann, AnnotationInMemoryVaultTokensRevoked)
    /\ Lookup(pod.ann, AnnotationInMemoryVaultTokensRevoked) = StringTrue

AnyRevoked(items) == \E i \in 1..Len(items) : PodRevoked(items[i])

\* faulty variant, to test that the properties notice it: a list error ends the watcher
AfterListFailing(err, items) ==
    IF err THEN "failed" ELSE IF AnyRevoked(items) THEN "satisfied" ELSE "sleep"

\* lines 45-55: what follows the answer of c.List
AfterList(err, items) ==
    IF err THEN "sleep" ELSE IF AnyRevoked(items) THEN "satisfied" ELSE "sleep"

\* labels.Parse, then entry of the loop
RWStart ==
    /\ rw_pc = "start"
    /\ rw_pc' = IF ParseSelector(LabelSelectorControlPlane) THEN "select" ELSE "parse_failed"
    /\ UNCHANGED <<storeVars, file, rw_ctx, rw_err, rw_list, pwVars, pubVars, peerVars, keyVars>>

\* the select at the top of an iteration
RWSelect ==
    /\ rw_pc = "select"
    /\ rw_pc' = IF SelectTakesDefault(rw_ctx) THEN "list" ELSE "cancelled"
    /\ UNCHANGED <<storeVars, file, rw_ctx, rw_err, rw_list, pwVars, pubVars, peerVars, keyVars>>

\* c.List returns (with an error, or with the matching pods as they are now),
\* and the result is scanned
RWList ==
    /\ rw_pc = "list"
    /\ \E failed \in BOOLEAN :
         /\ rw_err' = failed
         /\ rw_list' = IF failed THEN <<>> ELSE ListPods(LabelSelectorControlPlane)
    /\ rw_pc' = AfterList(rw_err', rw_list')
    /\ UNCHANGED <<storeVars, file, rw_ctx, pwVars, pubVars, peerVars, keyVars>>

\* time.Sleep(300 * time.Millisecond) returns
RWWake ==
    /\ rw_pc = "sleep"
    /\ rw_pc' = "select"
    /\ UNCHANGED <<storeVars, file, rw_ctx, rw_err, rw_list, pwVars, pubVars, peerVars, keyVars>>

\* the caller cancels the watcher's ctx
CancelRW ==
    /\ rw_ctx = CtxLive
    /\ rw_ctx' = WhenCancelled(rw_pc)
    /\ UNCHANGED <<storeVars, file, rw_pc, rw_err, rw_list, pwVars, pubVars, peerVars, keyVars>>

\* --------------------------------------------------- AwaitPreDeleteStarted
\* string(b) == StringTrue
\* faulty variant, to test that the properties notice it: a comparison that ignores a trailing newline
IsSentinelTrimmed(b) == b \in {StringTrue, "true\n"}

IsSentinel(b) == b = StringTrue

\* lines 67-74: what follows the answer of os.ReadFile
AfterRead(err, b) ==
    IF err THEN "sleep" ELSE IF IsSentinel(b) THEN "satisfied" ELSE "sleep"

\* the select at the top of an iteration
PWSelect ==
    /\ pw_pc = "select"
    /\ pw_pc' = IF SelectTakesDefault(pw_ctx) THEN "read" ELSE "cancelled"
    /\ UNCHANGED <<storeVars, file, rwVars, pw_ctx, pw_err, pw_b, handlerCalls, pubVars, peerVars, keyVars>>

\* os.ReadFile returns (an error when the file is absent or the read fails,
\* else the contents); on the sentinel the handler is invoked and the
\* watcher returns
PWRead ==
    /\ pw_pc = "read"
    /\ \E failed \in {TRUE} \cup {file = FileAbsent} :
         /\ pw_err' = failed
         /\ pw_b' = IF failed THEN "" ELSE file
    /\ pw_pc' = AfterRead(pw_err', pw_b')
    /\ handlerCalls' = IF pw_pc' = "satisfied" THEN handlerCalls + 1 ELSE handlerCalls
    /\ UNCHANGED <<storeVars, file, rwVars, pw_ctx, pubVars, peerVars, keyVars>>

\* time.Sleep(300 * time.Millisecond) returns
PWWake ==
    /\ pw_pc = "sleep"
    /\ pw_pc' = "select"
    /\ UNCHANGED <<storeVars, file, rwVars, pw_ctx, pw_err, pw_b, handlerCalls, pubVars, peerVars, keyVars>>

\* the caller cancels the watcher's ctx
CancelPW ==
    /\ pw_ctx = CtxLive
    /\ pw_ctx' = WhenCancelled(pw_pc)
    /\ UNCHANGED <<storeVars, file, rwVars, pw_pc, pw_err, pw_b, handlerCalls, pubVars, peerVars, keyVars>>

\* ------------------------------------------------------- the environment
\* the platform (downward API) writes the probe file
EnvWriteFile ==
    /\ \E c \in FileContents : file' = c /\ file # c
    /\ UNCHANGED <<storeVars, rwVars, pwVars, pubVars, peerVars, keyVars>>

\* another client of the store sets or removes an annotation of a pod; every
\* write gives the pod a new resourceVersion
EnvAnnotate ==
    /\ envWrites < MaxEnvWrites
    /\ \E n \in DOMAIN pods, k \in EnvAnnotationKeys :
         \E a \in {MapSet(pods[n].ann, k, v) : v \in AnnotationValues}
                  \cup {MapDelete(pods[n].ann, k)} :
            /\ a # pods[n].ann
            /\ pods' = [pods EXCEPT ![n].ann = a, ![n].rv = @ + 1]
    /\ envWrites' = envWrites + 1
    /\ UNCHANGED <<file, rwVars, pwVars, pubVars, peerVars, keyVars>>

\* the platform deletes a pod
EnvDelete ==
    /\ envWrites < MaxEnvWrites
    /\ \E n \in DOMAIN pods : pods' = [m \in (DOMAIN pods) \ {n} |-> pods[m]]
    /\ envWrites' = envWrites + 1
    /\ UNCHANGED <<file, rwVars, pwVars, pubVars, peerVars, keyVars>>

\* ------------------------------------------------------ annotateOperatorPods
\* strings.Join(elems, sep) on token sequences
RECURSIVE Join(_, _)
Join(elems, sep) ==
    IF Len(elems) = 0 THEN <<>>
    ELSE IF Len(elems) = 1 THEN elems[1]
    ELSE elems[1] \o sep \o Join(Tail(elems), sep)

\* fmt.Errorf(format) with no operands: "%%" prints "%", "%" followed by a
\* verb prints "%!verb(MISSING)", a trailing "%" prints "%!(NOVERB)"
RECURSIVE Errorf(_)
Errorf(format) ==
    IF Len(format) = 0 THEN <<>>
    ELSE IF format[1] # "%" THEN <<format[1]>> \o Errorf(Tail(format))
    ELSE IF Len(format) = 1 THEN <<"%!(NOVERB)">>
    ELSE IF format[2] = "%" THEN <<"%">> \o Errorf(Tail(Tail(format)))
    ELSE <<"%!", format[2], "(MISSING)">> \o Errorf(Tail(Tail(format)))

\* err.Error() of a failed c.Patch of pod n
ErrorText(outcome, n) ==
    IF outcome = "notfound" THEN <<"pods", ToString(n), "not found">>
    ELSE IF outcome = "conflict" THEN <<"conflict on pods", ToString(n)>>
    ELSE IF outcome = "timeout" THEN <<"timeout patching pods", ToString(n)>>
    ELSE <<"admission denied pods", ToString(n), "quota at 100", "%", "used">>

\* for k, v := range annotations { pod.Annotations[k] = v }, on a non-nil map
RECURSIVE SetAll(_, _)
SetAll(m, annotations) ==
    IF DOMAIN annotations.kv = {} THEN m
    ELSE LET k == CHOOSE x \in DOMAIN annotations.kv : TRUE
         IN SetAll(MapSet(m, k, annotations.kv[k]), MapDelete(annotations, k))

\* json.Marshal(pod): the whole listed object, its resourceVersion included
Marshal(pod) ==
    [name |-> pod.name, labels |-> pod.cp, annotations |-> pod.ann.kv,
     resourceVersion |-> pod.rv]

\* the store applies a JSON merge patch to the pod it holds: every member of
\* the patch replaces the pod's, maps are merged member by member
ApplyMergePatch(cur, patch) ==
    [cp |-> patch.labels,
     ann |-> [isNil |-> cur.ann.isNil /\ DOMAIN patch.annotations = {},
              kv |-> [x \in (DOMAIN cur.ann.kv) \cup (DOMAIN patch.annotations) |->
                        IF x \in DOMAIN patch.annotations
                        THEN patch.annotations[x] ELSE cur.ann.kv[x]]],
     rv |-> cur.rv]

\* what c.Patch(ctx, &pod, RawPatch(MergePatchType, pJson)) can answer: the
\* pod may be gone, a resourceVersion in the patch body is a precondition on
\* the stored one, an admission webhook can deny the update with a message
\* of its own, and any call can fail on the way
PatchOutcomes(patch) ==
    {"timeout"} \cup
    (IF patch.name \notin DOMAIN pods THEN {"notfound"}
     ELSE IF pods[patch.name].rv # patch.resourceVersion THEN {"conflict"}
     ELSE {"denied", "ok"})

\* the store after a successful patch
Patched(patch) ==
    LET new == ApplyMergePatch(pods[patch.name], patch)
    IN [pods EXCEPT ![patch.name] =
          IF [new EXCEPT !.rv = 0] = [pods[patch.name] EXCEPT !.rv = 0]
          THEN pods[patch.name] ELSE [new EXCEPT !.rv = @ + 1]]

NoError == [kind |-> "nil", msg |-> <<>>]
\* lines 115-118
ReturnValue(errs) ==
    IF Len(errs) # 0
    THEN [kind |-> "error", msg |-> Errorf(Join(errs, <<",">>))]
    ELSE NoError

\* AnnotateInMemoryVaultTokensRevoked / AnnotatePredeleteHookStarted: the
\* call, up to the answer of c.List
PubList ==
    /\ pub_pc = "idle"
    /\ \E k \in {AnnotationInMemoryVaultTokensRevoked, AnnotationPreDeleteHookStarted} :
         pub_annotations' = MapOf(k, StringTrue)
    /\ \E failed \in BOOLEAN :
         IF ~ParseSelector(LabelSelectorControlPlane)
         THEN /\ pub_ret' = [kind |-> "error", msg |-> <<"failed to parse label selector err=">>]
              /\ pub_pc' = "done"
              /\ UNCHANGED <<pub_items, pub_i>>
         ELSE IF failed
         THEN /\ pub_ret' = [kind |-> "error", msg |-> <<"failed to list pods err=", "timeout">>]
              /\ pub_pc' = "done"
              /\ UNCHANGED <<pub_items, pub_i>>
         ELSE /\ pub_items' = ListPods(LabelSelectorControlPlane)
              /\ pub_i' = 1
              /\ IF Len(pub_items') = 0
                 THEN pub_ret' = ReturnValue(pub_errs) /\ pub_pc' = "done"
                 ELSE pub_ret' = pub_ret /\ pub_pc' = "patch"
    /\ UNCHANGED <<storeVars, file, rwVars, pwVars, pub_errs, patchLog, peerVars, keyVars>>

\* one iteration of the range loop: the annotations are set on the listed
\* pod (a panic when its map is nil), the pod is marshalled and patched;
\* after the last iteration the function returns
PubPatch ==
    /\ pub_pc = "patch"
    /\ LET pod == pub_items[pub_i] IN
       IF pod.ann.isNil /\ DOMAIN pub_annotations.kv # {}
       THEN /\ pub_pc' = "panicked"
            /\ UNCHANGED <<pods, pub_i, pub_errs, pub_ret, patchLog>>
       ELSE LET pJson == Marshal([pod EXCEPT !.ann = SetAll(pod.ann, pub_annotations)])
            IN \E outcome \in PatchOutcomes(pJson) :
                 /\ pods' = IF outcome = "ok" THEN Patched(pJson) ELSE pods
                 /\ pub_errs' = IF outcome = "ok" THEN pub_errs
                                ELSE Append(pub_errs, ErrorText(outcome, pod.name))
                 /\ patchLog' = Append(patchLog, [name |-> pod.name, outcome |-> outcome,
                                                  body |-> pJson])
                 /\ IF pub_i = Len(pub_items)
                    THEN /\ pub_ret' = ReturnValue(pub_errs')
                         /\ pub_pc' = "done"
                         /\ pub_i' = pub_i
                    ELSE /\ pub_ret' = pub_ret
                         /\ pub_pc' = "patch"
                         /\ pub_i' = pub_i + 1
    /\ UNCHANGED <<envWrites, file, rwVars, pwVars, pub_annotations, pub_items,
                   peerVars, keyVars>>

\* the same function run by another replica at the same time, with locals of
\* its own: the call, up to the answer of c.List
PeerList ==
    /\ peer_pc = "idle"
    /\ \E k \in {AnnotationInMemoryVaultTokensRevoked, AnnotationPreDeleteHookStarted} :
         peer_annotations' = MapOf(k, StringTrue)
    /\ \E failed \in BOOLEAN :
         IF ~ParseSelector(LabelSelectorControlPlane)
         THEN /\ peer_ret' = [kind |-> "error", msg |-> <<"failed to parse label selector err=">>]
              /\ peer_pc' = "done"
              /\ UNCHANGED <<peer_items, peer_i>>
         ELSE IF failed
         THEN /\ peer_ret' = [kind |-> "error", msg |-> <<"failed to list pods err=", "timeout">>]
              /\ peer_pc' = "done"
              /\ UNCHANGED <<peer_items, peer_i>>
         ELSE /\ peer_items' = ListPods(LabelSelectorControlPlane)
              /\ peer_i' = 1
              /\ IF Len(peer_items') = 0
                 THEN peer_ret' = ReturnValue(peer_errs) /\ peer_pc' = "done"
                 ELSE peer_ret' = peer_ret /\ peer_pc' = "patch"
    /\ UNCHANGED <<storeVars, file, rwVars, pwVars, pubVars, peer_errs, keyVars>>

\* one iteration of its range loop
PeerPatch ==
    /\ peer_pc = "patch"
    /\ LET pod == peer_items[peer_i] IN
       IF pod.ann.isNil /\ DOMAIN peer_annotations.kv # {}
       THEN /\ peer_pc' = "panicked"
            /\ UNCHANGED <<pods, peer_i, peer_errs, peer_ret>>
       ELSE LET pJson == Marshal([pod EXCEPT !.ann = SetAll(pod.ann, peer_annotations)])
            IN \E outcome \in PatchOutcomes(pJson) :
                 /\ pods' = IF outcome = "ok" THEN Patched(pJson) ELSE pods
                 /\ peer_errs' = IF outcome = "ok" THEN peer_errs
                                 ELSE Append(peer_errs, ErrorText(outcome, pod.name))
                 /\ IF peer_i = Len(peer_items)
                    THEN /\ peer_ret' = ReturnValue(peer_errs')
                         /\ peer_pc' = "done"
                         /\ peer_i' = peer_i
                    ELSE /\ peer_ret' = peer_ret
                         /\ peer_pc' = "patch"
                         /\ peer_i' = peer_i + 1
    /\ UNCHANGED <<envWrites, file, rwVars, pwVars, pubVars, peer_annotations, peer_items,
                   keyVars>>

\* ------------------------------------------------------- client cache keys
\* internal/vault/cache_key.go: computeClientCacheKey, ClientCacheKey.IsClone
\* and ClientCacheKeyClone, as cache_key_test.go calls them.  Keys, UIDs,
\* method names and namespaces are sequences of characters.
UIDLength == 36
MaxMethodLength == 40
HashLength == 22
MaxKeyLength == 63

errorKeyLengthExceeded == "errorKeyLengthExceeded"
errorDuplicateUID == "errorDuplicateUID"
errorInvalidUIDLength == "errorInvalidUIDLength"
errorEmptyNamespace == "namespace cannot be empty"
errorParentIsClone == "parent key cannot be a clone"
ErrNil == "nil"

Repeat(c, n) == [i \in 1..n |-> c]

Hex == <<"0", "1", "2", "3", "4", "5", "6", "7", "8", "9", "a", "b", "c", "d", "e", "f">>
Alphabet == Hex \o <<"-", ".">>
Ord(c) == CHOOSE i \in 1..Len(Alphabet) : Alphabet[i] = c

\* the UIDs of cache_key_test.go: "c4fad6b9-e7bb-4ed8-bc38-67fd6dc85a3" and a
\* last digit
UIDPrefix ==
    <<"c", "4", "f", "a", "d", "6", "b", "9", "-", "e", "7", "b", "b", "-",
      "4", "e", "d", "8", "-", "b", "c", "3", "8", "-",
      "6", "7", "f", "d", "6", "d", "c", "8", "5", "a", "3">>
authUID == UIDPrefix \o <<"5">>
connUID == UIDPrefix \o <<"6">>
providerUID == UIDPrefix \o <<"7">>

\* the identity validator: nil for a UID of the required width
validateObjectUID(uid) ==
    IF Len(uid) = UIDLength THEN ErrNil ELSE errorInvalidUIDLength

\* the text the digest is taken of: UID and generation of the auth and of
\* the connection object, and the provider's UID
HashInput(authObj, connObj, provUID) ==
    authObj.uid \o <<"-", Hex[authObj.generation + 1], ".">>
        \o connObj.uid \o <<"-", Hex[connObj.generation + 1], ".">>
        \o provUID

\* a stand-in for the digest: HashLength hexadecimal digits, each depending on
\* every character of the input and on its position
RECURSIVE Checksum(_, _, _, _)
Checksum(s, w, lo, hi) ==
    IF lo > hi THEN 0
    ELSE IF lo = hi THEN (Ord(s[lo]) * (w + lo)) % 65521
    ELSE LET mid == (lo + hi) \div 2
         IN (Checksum(s, w, lo, mid) + Checksum(s, w, mid + 1, hi)) % 65521

Digest(input) ==
    [i \in 1..HashLength |-> Hex[(Checksum(input, i, 1, Len(input)) % 16) + 1]]

KeyResult(key, err) == [key |-> key, err |-> err]

\* faulty variant, to test that the properties notice it: uniqueness is
\* checked before the width of the UIDs
computeClientCacheKeyDuplicateFirst(authObj, connObj, provUID) ==
    IF \/ authObj.uid = connObj.uid
       \/ authObj.uid = provUID
       \/ connObj.uid = provUID
    THEN KeyResult(<<>>, errorDuplicateUID)
    ELSE IF validateObjectUID(authObj.uid) # ErrNil
    THEN KeyResult(<<>>, validateObjectUID(authObj.uid))
    ELSE IF validateObjectUID(connObj.uid) # ErrNil
    THEN KeyResult(<<>>, validateObjectUID(connObj.uid))
    ELSE IF Len(authObj.method) > MaxMethodLength
    THEN KeyResult(<<>>, errorKeyLengthExceeded)
    ELSE KeyResult(authObj.method \o <<"-">> \o Digest(HashInput(authObj, connObj, provUID)),
                   ErrNil)

\* faulty variant, to test that the properties notice it: the bound is put on
\* the composed key with a strict comparison
computeClientCacheKeyStrictBound(authObj, connObj, provUID) ==
    IF validateObjectUID(authObj.uid) # ErrNil
    THEN KeyResult(<<>>, validateObjectUID(authObj.uid))
    ELSE IF validateObjectUID(connObj.uid) # ErrNil
    THEN KeyResult(<<>>, validateObjectUID(connObj.uid))
    ELSE IF \/ authObj.uid = connObj.uid
            \/ authObj.uid = provUID
            \/ connObj.uid = provUID
    THEN KeyResult(<<>>, errorDuplicateUID)
    ELSE IF Len(authObj.method) + 1 + HashLength >= MaxKeyLength
    THEN KeyResult(<<>>, errorKeyLengthExceeded)
    ELSE KeyResult(authObj.method \o <<"-">> \o Digest(HashInput(authObj, connObj, provUID)),
                   ErrNil)

\* computeClientCacheKey(authObj, connObj, providerUID): the UIDs of the two
\* objects are validated, the three UIDs must differ pairwise, the method
\* must leave room for "-" and the hash
computeClientCacheKey(authObj, connObj, provUID) ==
    IF validateObjectUID(authObj.uid) # ErrNil
    THEN KeyResult(<<>>, validateObjectUID(authObj.uid))
    ELSE IF validateObjectUID(connObj.uid) # ErrNil
    THEN KeyResult(<<>>, validateObjectUID(connObj.uid))
    ELSE IF \/ authObj.uid = connObj.uid
            \/ authObj.uid = provUID
            \/ connObj.uid = provUID
    THEN KeyResult(<<>>, errorDuplicateUID)
    ELSE IF Len(authObj.method) > MaxMethodLength
    THEN KeyResult(<<>>, errorKeyLengthExceeded)
    ELSE KeyResult(authObj.method \o <<"-">> \o Digest(HashInput(authObj, connObj, provUID)),
                   ErrNil)

\* strings.Split(s, sep)
RECURSIVE Split(_, _)
Split(s, sep) ==
    IF \A i \in 1..Len(s) : s[i] # sep THEN <<s>>
    ELSE LET i == CHOOSE j \in 1..Len(s) :
                     s[j] = sep /\ \A k \in 1..(j - 1) : s[k] # sep
         IN <<SubSeq(s, 1, i - 1)>> \o Split(SubSeq(s, i + 1, Len(s)), sep)

\* faulty variant, to test that the properties notice it: a third segment
\* counts even when it is empty
IsCloneAnyThird(key) == Len(Split(key, "-")) > 2

\* ClientCacheKey.IsClone: the key has a third dash-delimited segment, and it
\* is not empty
IsClone(key) ==
    LET parts == Split(key, "-") IN Len(parts) > 2 /\ parts[3] # <<>>

\* faulty variant, to test that the properties notice it: the parent is
\* looked at before the namespace
ClientCacheKeyCloneParentFirst(key, namespace) ==
    IF IsClone(key) THEN KeyResult(<<>>, errorParentIsClone)
    ELSE IF namespace = <<>> THEN KeyResult(<<>>, errorEmptyNamespace)
    ELSE KeyResult(key \o <<"-">> \o namespace, ErrNil)

\* ClientCacheKeyClone(key, namespace)
ClientCacheKeyClone(key, namespace) ==
    IF namespace = <<>> THEN KeyResult(<<>>, errorEmptyNamespace)
    ELSE IF IsClone(key) THEN KeyResult(<<>>, errorParentIsClone)
    ELSE KeyResult(key \o <<"-">> \o namespace, ErrNil)

\* the arguments the callers pass: the UIDs of the test, one too long and one
\* too short; method names up to and beyond the bound, one with a dash;
\* namespaces, empty, composite, and with a dash at either end
UIDs ==
    {authUID, connUID, providerUID, authUID \o <<"1">>, SubSeq(authUID, 1, UIDLength - 1)}
Generations == {0, 1}
Methods ==
    {Repeat("x", n) : n \in {0, MaxMethodLength - 1, MaxMethodLength, MaxMethodLength + 1}}
        \cup {<<"i", "c", "a", "l">>, <<"i", "-", "l">>}
AuthObjs == [uid : UIDs, generation : Generations, method : Methods]
ConnObjs == [uid : UIDs, generation : Generations]
Namespaces ==
    {<<>>, <<"n", "s", "1", "/", "n", "s", "2">>, <<"n", "s", "3">>,
     <<"-", "n", "s">>, <<"n", "s", "-">>}
\* keys a caller may hold from elsewhere: with and without hash, with an
\* empty, a plain and a dashed third part
SampleKeys ==
    {m \o s : m \in {<<"i", "c", "a", "l">>, <<"i", "-", "l">>, <<>>},
              s \in {<<>>, <<"-">>} \cup
                    {<<"-">> \o Digest(authUID) \o t :
                        t \in {<<>>, <<"-">>} \cup {<<"-">> \o n : n \in Namespaces}}}

\* a caller computes the key of a client
ComputeKey ==
    /\ ck_call.fn = "none"
    /\ \E authObj \in AuthObjs, connObj \in ConnObjs, provUID \in UIDs :
         LET r == computeClientCacheKey(authObj, connObj, provUID) IN
           /\ ck_call' = [fn |-> "computeClientCacheKey", authObj |-> authObj,
                          connObj |-> connObj, providerUID |-> provUID]
           /\ ck_key' = r.key
           /\ ck_err' = r.err
    /\ ck_clones' = 0
    /\ UNCHANGED <<storeVars, file, rwVars, pwVars, pubVars, peerVars, ck_isClone>>

\* a caller clones the key it was returned
CloneKey ==
    /\ ck_call.fn \in {"computeClientCacheKey", "ClientCacheKeyClone"}
    /\ ck_err = ErrNil
    /\ ck_clones < MaxClones
    /\ \E namespace \in Namespaces :
         LET r == ClientCacheKeyClone(ck_key, namespace) IN
           /\ ck_call' = [fn |-> "ClientCacheKeyClone", key |-> ck_key,
                          namespace |-> namespace]
           /\ ck_key' = r.key
           /\ ck_err' = r.err
           /\ ck_clones' = IF r.err = ErrNil THEN ck_clones + 1 ELSE ck_clones
    /\ UNCHANGED <<storeVars, file, rwVars, pwVars, pubVars, peerVars, ck_isClone>>

\* a caller asks whether a key it holds is a clone
IsCloneCall ==
    /\ ck_call.fn = "none"
    /\ \E key \in SampleKeys :
         /\ ck_call' = [fn |-> "IsClone", key |-> key]
         /\ ck_isClone' = IsClone(key)
    /\ UNCHANGED <<storeVars, file, rwVars, pwVars, pubVars, peerVars,
                   ck_key, ck_err, ck_clones>>

\* ------------------------------------------------------- specifications
\* the whole program
Next ==
    \/ RWStart \/ RWSelect \/ RWList \/ RWWake \/ CancelRW
    \/ PWSelect \/ PWRead \/ PWWake \/ CancelPW
    \/ EnvWriteFile \/ EnvAnnotate \/ EnvDelete
    \/ PubList \/ PubPatch \/ PeerList \/ PeerPatch
    \/ ComputeKey \/ CloneKey \/ IsCloneCall

Spec == Init /\ [][Next]_vars

\* two replicas publishing at the same time
NextPublishers ==
    \/ PubList \/ PubPatch \/ PeerList \/ PeerPatch

SpecPublishers == Init /\ [][NextPublishers]_vars

\* the callers of the cache-key functions; the store plays no part
InitKeys ==
    /\ Init
    /\ \A n \in DOMAIN pods : n # OtherPod => pods[n].ann = NilMap

NextKeys ==
    \/ ComputeKey \/ CloneKey \/ IsCloneCall

SpecKeys == InitKeys /\ [][NextKeys]_vars

\* AwaitInMemoryVaultTokensRevoked against a store other clients write
NextRevoked ==
    \/ RWStart \/ RWSelect \/ RWList \/ RWWake \/ CancelRW
    \/ EnvAnnotate \/ EnvDelete

SpecRevoked == Init /\ [][NextRevoked]_vars

\* AwaitPreDeleteStarted against the probe file
NextPreDelete ==
    \/ PWSelect \/ PWRead \/ PWWake \/ CancelPW \/ EnvWriteFile

SpecPreDelete == Init /\ [][NextPreDelete]_vars

\* both watchers side by side
NextWatchers ==
    \/ RWStart \/ RWSelect \/ RWList \/ RWWake \/ CancelRW
    \/ PWSelect \/ PWRead \/ PWWake \/ CancelPW
    \/ EnvWriteFile

SpecWatchers == Init /\ [][NextWatchers]_vars

\* the same, with both goroutines scheduled again and again and every
\* time.Sleep, c.List and os.ReadFile returning
SpecWatchersFair ==
    /\ SpecWatchers
    /\ WF_vars(RWStart) /\ WF_vars(RWSelect) /\ WF_vars(RWList) /\ WF_vars(RWWake)
    /\ WF_vars(PWSelect) /\ WF_vars(PWRead) /\ WF_vars(PWWake)

\* annotateOperatorPods against a store other clients write
NextPublisher ==
    \/ PubList \/ PubPatch \/ EnvAnnotate \/ EnvDelete

SpecPublisher == Init /\ [][NextPublisher]_vars

\* a replica publishing while another replica's AwaitInMemoryVaultTokensRevoked
\* polls; the watcher's goroutine keeps being scheduled: its sleep ends and
\* its calls return
NextSignal ==
    \/ PubList \/ PubPatch
    \/ RWStart \/ RWSelect \/ RWList \/ RWWake \/ CancelRW

SpecSignal ==
    /\ Init /\ [][NextSignal]_vars
    /\ WF_vars(RWStart) /\ WF_vars(RWSelect) /\ WF_vars(RWList) /\ WF_vars(RWWake)

\* ----------------------------------------------------------------- claims
\* what the claims call things, stated without the program's own helpers
IsOperatorPod(pod) == pod.cp = "controller-manager"

CarriesRevokedSignal(pod) ==
    /\ ~pod.ann.isNil
    /\ AnnotationInMemoryVaultTokensRevoked \in DOMAIN pod.ann.kv
    /\ pod.ann.kv[AnnotationInMemoryVaultTokensRevoked] = "true"

Terminated(pc) == pc \notin {"start", "select", "list", "read", "sleep"}

\* C1: AwaitInMemoryVaultTokensRevoked has terminated with success exactly
\* when its last list call succeeded and at least one of the descriptors it
\* returned carries the in-memory-vault-tokens-revoked annotation with the
\* value "true"; an iteration whose list failed, or none of whose descriptors
\* carries that value, does not end in success.
C1_SuccessIffRevokedListed ==
    (rw_pc = "satisfied")
        <=> (~rw_err /\ \E i \in 1..Len(rw_list) : CarriesRevokedSignal(rw_list[i]))

\* C1 witness: success on a list of several descriptors of which one carries
\* the signal and another does not.
C1_Witness ==
    /\ rw_pc = "satisfied"
    /\ \E i, j \in 1..Len(rw_list) :
         CarriesRevokedSignal(rw_list[i]) /\ ~CarriesRevokedSignal(rw_list[j])

NoOperatorPodCarriesSignal ==
    \A n \in DOMAIN pods : IsOperatorPod(pods[n]) => ~CarriesRevokedSignal(pods[n])

\* C2: in a run in which no replica descriptor ever carries the revocation
\* signal, AwaitInMemoryVaultTokensRevoked never terminates with success and,
\* if it has terminated, is cancelled with its token fired; and no step of
\* the watcher, in any run, changes the store.
C2_NoSignalNoSuccessNoWrite ==
    /\ ([]NoOperatorPodCarriesSignal)
         => [](/\ rw_pc # "satisfied"
               /\ Terminated(rw_pc) => (rw_pc = "cancelled" /\ CtxDone(rw_ctx)))
    /\ [][rw_pc' # rw_pc => pods' = pods]_vars

\* C2 witness: the watcher has polled a store that holds operator pods, none
\* with the signal (one has the key with another value, a pod of another
\* component has the signal), and has ended cancelled.
C2_Witness ==
    /\ rw_pc = "cancelled"
    /\ ~rw_err /\ Len(rw_list) >= 2
    /\ NoOperatorPodCarriesSignal
    /\ \E i \in 1..Len(rw_list) :
         HasKey(rw_list[i].ann, AnnotationInMemoryVaultTokensRevoked)
    /\ \E n \in DOMAIN pods : ~IsOperatorPod(pods[n]) /\ CarriesRevokedSignal(pods[n])

\* C3: in both watchers the step on which a list or a file read answers with
\* an error leaves the watcher polling (it goes to sleep, whatever the
\* answers before), and a watcher that has terminated is SATISFIED or
\* CANCELLED, nothing else.
C3_ErrorsNeverTerminate ==
    /\ [](/\ Terminated(rw_pc) => rw_pc \in {"satisfied", "cancelled"}
          /\ Terminated(pw_pc) => pw_pc \in {"satisfied", "cancelled"})
    /\ [][/\ (rw_pc = "list" /\ rw_pc' # "list" /\ rw_err') => rw_pc' = "sleep"
          /\ (pw_pc = "read" /\ pw_pc' # "read" /\ pw_err') => pw_pc' = "sleep"]_vars

\* C3 witness: each watcher is in a further call after a call that failed.
C3_Witness ==
    /\ rw_pc = "list" /\ rw_err
    /\ pw_pc = "read" /\ pw_err

\* C4: the handler is invoked at most once; it has been invoked exactly when
\* AwaitPreDeleteStarted has terminated with success, and that is exactly
\* when its last file read succeeded with contents equal to "true" (so the
\* first such read ends the loop, and no read error or other contents does).
C4_HandlerOnceOnSentinel ==
    /\ handlerCalls \in {0, 1}
    /\ (handlerCalls = 1) <=> (pw_pc = "satisfied")
    /\ (pw_pc = "satisfied") <=> (~pw_err /\ pw_b = "true")

\* C4 witness: the handler has been invoked once and the watcher has returned.
C4_Witness ==
    /\ handlerCalls = 1
    /\ pw_pc = "satisfied"
    /\ pw_b = "true"

\* C5 (as stated, refuted): a token that fires while the watcher is still
\* running, at whatever point of the iteration, keeps the handler from ever
\* being invoked.
C5_CancelFirstNeverInvokes ==
    pw_ctx \in {CtxDoneInCall, CtxDoneOutsideCall} => handlerCalls = 0

\* C5 (amended): a token that fires before the select at the top of an
\* iteration or during the sleep keeps the handler from ever being invoked,
\* and the watcher, once terminated, is CANCELLED; a token that fires after
\* the select chose default does not stop that iteration's read, which
\* invokes the handler if it reads "true".
C5_CancelBeforeSelectNeverInvokes ==
    /\ pw_ctx = CtxDoneOutsideCall
         => (handlerCalls = 0 /\ (Terminated(pw_pc) => pw_pc = "cancelled"))
    /\ (pw_ctx = CtxDoneInCall /\ Terminated(pw_pc) /\ ~pw_err /\ pw_b = "true")
         => handlerCalls = 1

\* C5 witness: cancelled outside the read, the watcher has ended CANCELLED
\* with "true" in the probe file and the handler not invoked.
C5_Witness ==
    /\ pw_ctx = CtxDoneOutsideCall
    /\ pw_pc = "cancelled"
    /\ file = "true"
    /\ handlerCalls = 0

\* C6: in either watcher the select at the top of an iteration, taken with
\* the token already fired, ends the watcher CANCELLED: it never goes on to a
\* list or a file read, whatever the store or the probe file holds.
C6_CancelBeatsNewCall ==
    [][/\ (rw_pc = "select" /\ CtxDone(rw_ctx)) => rw_pc' \in {"select", "cancelled"}
       /\ (pw_pc = "select" /\ CtxDone(pw_ctx)) => pw_pc' \in {"select", "cancelled"}]_vars

\* C6 witness: both watchers have ended CANCELLED while the signal each
\* awaits is present and the handler has not been invoked.
C6_Witness ==
    /\ rw_pc = "cancelled" /\ pw_pc = "cancelled"
    /\ \E n \in DOMAIN pods : IsOperatorPod(pods[n]) /\ CarriesRevokedSignal(pods[n])
    /\ file = "true"
    /\ handlerCalls = 0

\* C7 (as stated, refuted): when the token fires while a list call is in
\* flight, the watcher does not terminate with success.
C7_InFlightResultDiscarded ==
    rw_ctx = CtxDoneInCall => rw_pc # "satisfied"

\* C7 (amended): when the token fires while a list call is in flight, the
\* answer of that call is still scanned: the watcher terminates with success
\* exactly if the call succeeded and a listed descriptor carries the signal;
\* otherwise it starts no further list call and, once terminated, is
\* CANCELLED.
C7_InFlightResultStillScanned ==
    /\ [](rw_ctx = CtxDoneInCall /\ rw_pc # "list" =>
            /\ (rw_pc = "satisfied")
                 <=> (~rw_err /\ \E i \in 1..Len(rw_list) : CarriesRevokedSignal(rw_list[i]))
            /\ Terminated(rw_pc) => rw_pc \in {"satisfied", "cancelled"})
    /\ [][(rw_ctx = CtxDoneInCall /\ rw_pc # "list") => rw_pc' # "list"]_vars

\* C7 witness: the token fired during a list call whose answer carried the
\* signal, and the watcher has terminated with success.
C7_Witness ==
    /\ rw_ctx = CtxDoneInCall
    /\ rw_pc = "satisfied"

\* the publisher's list call succeeded / the publisher is no longer running
PubListed == pub_i >= 1
ListedNames == [i \in 1..Len(pub_items) |-> pub_items[i].name]
PatchedNames == [i \in 1..Len(patchLog) |-> patchLog[i].name]
FailedPatches == SelectSeq(patchLog, LAMBDA e : e.outcome # "ok")

\* C8 (refuted by the code): once its list call has succeeded, a run of
\* annotateOperatorPods that is over has issued exactly one patch per listed
\* descriptor, in list order, whatever patches failed.
C8_EveryListedPodPatchedOnce ==
    (PubListed /\ pub_pc \in {"done", "panicked"}) => PatchedNames = ListedNames

\* the messages of the failed patches, in attempt order, separated by ","
RECURSIVE Enumerated(_)
Enumerated(failed) ==
    IF failed = <<>> THEN <<>>
    ELSE ErrorText(failed[1].outcome, failed[1].name)
         \o (IF Len(failed) > 1 THEN <<",">> ELSE <<>>)
         \o Enumerated(Tail(failed))

\* C9 (refuted by the code): after all listed descriptors were attempted,
\* annotateOperatorPods returns an error exactly if a patch failed, and the
\* text of that error is the failure messages of the failed patches, one per
\* failed descriptor, in attempt order.
C9_AggregateErrorExact ==
    (PubListed /\ pub_pc = "done" /\ Len(patchLog) = Len(pub_items)) =>
        /\ (pub_ret.kind = "error") <=> (FailedPatches # <<>>)
        /\ (pub_ret.kind = "nil") <=> (FailedPatches = <<>>)
        /\ pub_ret.msg = Enumerated(FailedPatches)

\* a step of annotateOperatorPods, and the patch it issued, if any
PublisherStep == pub_pc' # pub_pc \/ patchLog' # patchLog
PatchedOkOnStep(n) ==
    /\ patchLog' # patchLog
    /\ patchLog'[Len(patchLog')].name = n
    /\ patchLog'[Len(patchLog')].outcome = "ok"

\* C10: a step of annotateOperatorPods creates and deletes no descriptor; the
\* descriptor whose patch succeeds on the step is an operator pod, keeps its
\* labels, and its annotation map afterwards is the map before with the
\* supplied pairs added or overridden; every other descriptor (failed
\* patches and pods not matching the selector included) is left as it was.
C10_PatchFrame ==
    [][PublisherStep =>
        /\ DOMAIN pods' = DOMAIN pods
        /\ \A n \in DOMAIN pods :
             IF PatchedOkOnStep(n)
             THEN /\ IsOperatorPod(pods[n])
                  /\ pods'[n].cp = pods[n].cp
                  /\ DOMAIN pods'[n].ann.kv
                       = (DOMAIN pods[n].ann.kv) \cup (DOMAIN pub_annotations.kv)
                  /\ \A k \in DOMAIN pods'[n].ann.kv :
                       pods'[n].ann.kv[k] =
                         IF k \in DOMAIN pub_annotations.kv
                         THEN pub_annotations.kv[k] ELSE pods[n].ann.kv[k]
             ELSE pods'[n] = pods[n]]_vars

\* C10 witness: a run that is over patched one descriptor, which keeps
\* somebody else's annotation next to the supplied one, failed to patch
\* another, and left a pod of another component alone, after another client
\* had written to the store.
C10_Witness ==
    /\ pub_pc = "done"
    /\ envWrites >= 1
    /\ FailedPatches # <<>>
    /\ \E i \in 1..Len(patchLog) :
         /\ patchLog[i].outcome = "ok"
         /\ patchLog[i].name \in DOMAIN pods
         /\ LET a == pods[patchLog[i].name].ann.kv IN
              /\ OtherAnnotation \in DOMAIN a
              /\ \A k \in DOMAIN pub_annotations.kv : k \in DOMAIN a /\ a[k] = "true"
    /\ \E n \in DOMAIN pods : ~IsOperatorPod(pods[n])

\* C11 (refuted by the code): the body of every patch annotateOperatorPods
\* issues encodes the annotation pairs passed to the publisher and no other
\* annotation of the descriptor, and a patch that succeeds leaves every other
\* annotation of the descriptor as the store held it.
C11_PatchEncodesOnlySuppliedKeys ==
    /\ [](\A i \in 1..Len(patchLog) :
            patchLog[i].body.annotations = pub_annotations.kv)
    /\ [][\A n \in DOMAIN pods : PatchedOkOnStep(n) =>
            \A k \in (DOMAIN pods[n].ann.kv) \ (DOMAIN pub_annotations.kv) :
                /\ k \in DOMAIN pods'[n].ann.kv
                /\ pods'[n].ann.kv[k] = pods[n].ann.kv[k]]_vars

\* a run of AnnotateInMemoryVaultTokensRevoked has patched a descriptor
RevokedPublished ==
    /\ pub_annotations = MapOf(AnnotationInMemoryVaultTokensRevoked, "true")
    /\ \E i \in 1..Len(patchLog) : patchLog[i].outcome = "ok"

Called(fn) == ck_call.fn = fn
\* dashes in a key: a key of d dashes has d + 1 dash-delimited segments
Dashes(key) == Cardinality({i \in 1..Len(key) : key[i] = "-"})
EndsInDash(key) == Len(key) > 0 /\ key[Len(key)] = "-"

\* C13: ClientCacheKeyClone fails with "namespace cannot be empty" when the
\* namespace is empty; otherwise with "parent key cannot be a clone" when
\* IsClone holds of the parent key; otherwise it returns exactly the parent
\* key, "-" and the namespace.  On either failure the key returned is empty.
C13_CloneKeyContract ==
    Called("ClientCacheKeyClone") =>
        LET key == ck_call.key
            namespace == ck_call.namespace
        IN /\ namespace = <<>>
                => (ck_err = errorEmptyNamespace /\ ck_key = <<>>)
           /\ (namespace # <<>> /\ IsClone(key))
                => (ck_err = errorParentIsClone /\ ck_key = <<>>)
           /\ (namespace # <<>> /\ ~IsClone(key))
                => (ck_err = ErrNil /\ ck_key = key \o <<"-">> \o namespace)

\* C13 witness: the clone of a clone was asked for, with a namespace, and was
\* refused with the empty key.
C13_Witness ==
    /\ Called("ClientCacheKeyClone")
    /\ ck_clones = 1
    /\ ck_call.namespace = <<"n", "s", "3">>
    /\ ck_err = errorParentIsClone
    /\ ck_key = <<>>

\* C14 (refuted by the code): a key that a successful ClientCacheKeyClone
\* returned is never accepted as a parent (a further clone of it with a
\* namespace fails with "parent key cannot be a clone"), so that no key is
\* the result of more than one successful clone in a row.
C14_OneLevelOnly ==
    /\ ck_clones <= 1
    /\ (Called("ClientCacheKeyClone") /\ ck_clones = 1 /\ ck_err # ErrNil
          /\ ck_call.namespace # <<>>) => ck_err = errorParentIsClone

\* C15 (as stated, refuted): IsClone is true exactly of the keys that have
\* more than two dash-delimited segments and a non-empty last segment.
C15_CloneIffLastSegmentNonEmpty ==
    Called("IsClone") =>
        (ck_isClone <=> (Dashes(ck_call.key) >= 2 /\ ~EndsInDash(ck_call.key)))

\* C15 (amended): of a key of at most three dash-delimited segments, IsClone
\* is true exactly if the key has three segments and the third is not empty:
\* method-hash and method-hash- are no clones, method-hash-ns1/ns2 is one.
C15_CloneIffThirdSegmentNonEmpty ==
    (Called("IsClone") /\ Dashes(ck_call.key) <= 2) =>
        (ck_isClone <=> (Dashes(ck_call.key) = 2 /\ ~EndsInDash(ck_call.key)))

\* C15 witness: IsClone was asked of method-hash-ns1/ns2 and said yes.
C15_Witness ==
    /\ Called("IsClone")
    /\ Dashes(ck_call.key) = 2
    /\ \E i \in 1..Len(ck_call.key) : ck_call.key[i] = "/"
    /\ ck_isClone

\* the UIDs of a computeClientCacheKey call
CallUIDs == <<ck_call.authObj.uid, ck_call.connObj.uid, ck_call.providerUID>>
ValidDistinctUIDs ==
    /\ \A i \in 1..3 : Len(CallUIDs[i]) = 36
    /\ \A i, j \in 1..3 : i # j => CallUIDs[i] # CallUIDs[j]

\* C16: with valid, pairwise distinct UIDs computeClientCacheKey succeeds for
\* every method of at most 40 characters, returning the method, "-" and a
\* hash of 22 hexadecimal digits, 63 characters at most in all, and fails
\* with errorKeyLengthExceeded for every longer method: whatever the hash,
\* the length of the method alone decides.
C16_MethodLengthDecides ==
    (Called("computeClientCacheKey") /\ ValidDistinctUIDs) =>
        LET method == ck_call.authObj.method IN
          IF Len(method) <= 40
          THEN /\ ck_err = ErrNil
               /\ Len(ck_key) = Len(method) + 1 + 22
               /\ Len(ck_key) <= 63
               /\ SubSeq(ck_key, 1, Len(method) + 1) = method \o <<"-">>
               /\ \A i \in (Len(method) + 2)..Len(ck_key) :
                    \E h \in 1..Len(Hex) : ck_key[i] = Hex[h]
          ELSE ck_err = errorKeyLengthExceeded /\ ck_key = <<>>

\* C16 witness: a method of exactly 40 characters gave a key of exactly 63.
C16_Witness ==
    /\ Called("computeClientCacheKey")
    /\ Len(ck_call.authObj.method) = 40
    /\ ck_err = ErrNil
    /\ Len(ck_key) = 63

\* C17: computeClientCacheKey fails with errorInvalidUIDLength whenever the
\* UID of the auth or of the connection object is not exactly 36 characters
\* long; else with errorDuplicateUID whenever two of the three UIDs are equal
\* (the auth and the connection UID in particular), whatever the other
\* fields; else with errorKeyLengthExceeded when the method is too long.  No
\* key is returned with an error.
C17_ErrorOrder ==
    Called("computeClientCacheKey") =>
        LET widthOk == Len(CallUIDs[1]) = 36 /\ Len(CallUIDs[2]) = 36
            distinct == \A i, j \in 1..3 : i # j => CallUIDs[i] # CallUIDs[j]
        IN /\ ~widthOk => ck_err = errorInvalidUIDLength
           /\ (widthOk /\ CallUIDs[1] = CallUIDs[2]) => ck_err = errorDuplicateUID
           /\ (widthOk /\ ~distinct) => ck_err = errorDuplicateUID
           /\ (widthOk /\ distinct /\ Len(ck_call.authObj.method) > 40)
                => ck_err = errorKeyLengthExceeded
           /\ ck_err # ErrNil => ck_key = <<>>

\* C17 witness: a call with a UID too long, used for both objects, and a
\* method too long was refused for the UID's length.
C17_Witness ==
    /\ Called("computeClientCacheKey")
    /\ Len(ck_call.authObj.uid) = 37
    /\ ck_call.connObj.uid = ck_call.authObj.uid
    /\ Len(ck_call.authObj.method) = 41
    /\ ck_err = errorInvalidUIDLength
    /\ ck_key = <<>>

\* C18: once its token has fired, a watcher that is not inside a list or
\* read call never enters one again (at most the call in flight is finished,
\* no further iteration gets past its select), and every watcher whose token
\* has fired eventually is in a terminal state.
C18_CancelledWatcherTerminates ==
    /\ [][/\ (CtxDone(rw_ctx) /\ rw_pc # "list") => rw_pc' # "list"
          /\ (CtxDone(pw_ctx) /\ pw_pc # "read") => pw_pc' # "read"]_vars
    /\ CtxDone(rw_ctx) ~> Terminated(rw_pc)
    /\ CtxDone(pw_ctx) ~> Terminated(pw_pc)

\* C18 witness: each watcher was cancelled during a call that did not find
\* its signal, finished that iteration, and has terminated CANCELLED at the
\* next select.
C18_Witness ==
    /\ rw_ctx = CtxDoneInCall /\ rw_pc = "cancelled"
    /\ pw_ctx = CtxDoneInCall /\ pw_pc = "cancelled"

\* C19 (refuted by the code): annotateOperatorPods never crashes, whatever
\* the listed descriptors; a descriptor listed with a nil annotation map is
\* patched with exactly the supplied pairs and, the patch succeeding, carries
\* exactly those.
C19_NilAnnotationsHandled ==
    /\ pub_pc # "panicked"
    /\ \A i \in 1..Len(patchLog) :
         pub_items[i].ann.isNil =>
            /\ patchLog[i].body.annotations = pub_annotations.kv
            /\ (patchLog[i].outcome = "ok" /\ pub_pc = "patch" /\ pub_i = i + 1)
                 => pods[pub_items[i].name].ann.kv = pub_annotations.kv

\* the descriptor carries signal k
Carries(pod, k) == ~pod.ann.isNil /\ k \in DOMAIN pod.ann.kv /\ pod.ann.kv[k] = "true"
SignalKeys == {AnnotationPreDeleteHookStarted, AnnotationInMemoryVaultTokensRevoked}
PreDeleteOnly == MapOf(AnnotationPreDeleteHookStarted, "true")
\* a step of a run that publishes pre-delete-hook-started
PreDeleteStep ==
    \/ (pub_pc' # pub_pc \/ pub_i' # pub_i) /\ pub_annotations' = PreDeleteOnly
    \/ (peer_pc' # peer_pc \/ peer_i' # peer_i) /\ peer_annotations' = PreDeleteOnly
\* a list now would let AwaitInMemoryVaultTokensRevoked return
WatcherWouldSucceed == AnyRevoked(ListPods(LabelSelectorControlPlane))

\* C20: with two runs of the Annotate functions interleaved in any way (the
\* list of one before or after the patches of the other), a descriptor that
\* carries pre-delete-hook-started or in-memory-vault-tokens-revoked with
\* "true" still exists and carries it after every step; and no step of a run
\* that publishes pre-delete-hook-started turns a store on which
\* AwaitInMemoryVaultTokensRevoked would not succeed into one on which it
\* would.
C20_SignalsMonotonic ==
    [][/\ \A n \in DOMAIN pods : \A k \in SignalKeys :
            Carries(pods[n], k) => (n \in DOMAIN pods' /\ Carries(pods'[n], k))
       /\ (PreDeleteStep /\ ~WatcherWouldSucceed) => ~WatcherWouldSucceed']_vars

\* C20 witness: two runs publishing different signals are over; the second
\* listed a descriptor before the first patched it and its own patch of that
\* descriptor was refused, the descriptor carrying the first signal only;
\* another descriptor carries both.
C20_Witness ==
    /\ pub_pc = "done" /\ peer_pc = "done"
    /\ pub_annotations # peer_annotations
    /\ \E n \in DOMAIN pods, k \in DOMAIN pub_annotations.kv :
         /\ Carries(pods[n], k)
         /\ \A k2 \in DOMAIN peer_annotations.kv : ~Carries(pods[n], k2)
         /\ \E i \in 1..Len(peer_items) :
              peer_items[i].name = n /\ ~Carries(peer_items[i], k)
         /\ \E j \in 1..Len(peer_errs) : peer_errs[j] = ErrorText("conflict", n)
    /\ \E n \in DOMAIN pods : \A k \in SignalKeys : Carries(pods[n], k)

====
